---- MODULE Spec2Model ----
(***************************************************************************)
(* Model of cvcuda/Workspace.hpp: the UniqueWorkspace handle (a Workspace  *)
(* value plus a Deleter), the deleter built by AllocateWorkspace, and the  *)
(* allocator / cudaEventSynchronize calls they make.                       *)
(***************************************************************************)
EXTENDS Integers, Sequences, FiniteSets, TLC

(* ------------------------------ bounds -------------------------------- *)

\* number of UniqueWorkspace objects that are ever declared
NumHandles == 2

\* number of `ready` members that hold an event at the same time
MaxReady == 2

\* largest size and largest alignment of the requirements that are merged
MaxSize == 5

MaxAlignment == 4

(* ----------------------------- constants ------------------------------ *)

\* nullptr, for data pointers and for cudaEvent_t
Null == 0

\* the three members of NVCVWorkspace, in declaration order
SpaceOrder == <<"hostMem", "pinnedMem", "cudaMem">>

Spaces == {SpaceOrder[i] : i \in 1..3}

\* a value-initialised NVCVWorkspaceMemRequirements ( = {} )
ZeroReq == [size |-> 0, alignment |-> 0]

\* the neutral requirement of a space that needs no memory
NoReq == [size |-> 0, alignment |-> 1]

\* the requirement of a space that needs memory; it differs between spaces
SomeReq(s) ==
    CASE s = "hostMem" -> [size |-> 32, alignment |-> 8]
      [] s = "pinnedMem" -> [size |-> 64, alignment |-> 16]
      [] s = "cudaMem" -> [size |-> 96, alignment |-> 32]

\* the sets of spaces a caller asks memory for
NeededSpaces == { {}, {"pinnedMem"}, {"hostMem", "cudaMem"}, Spaces }

\* requirements a caller passes to AllocateWorkspace
WorkspaceRequirements ==
    { [s \in Spaces |-> IF s \in need THEN SomeReq(s) ELSE NoReq] : need \in NeededSpaces }

\* a value-initialised NVCVWorkspaceMem ( = {} )
NullMem == [data |-> Null, req |-> ZeroReq, ready |-> Null]

\* a value-initialised NVCVWorkspace ( = {} )
NullWorkspace == [s \in Spaces |-> NullMem]

\* pointers to storage that does not come from the allocator; a caller may
\* wrap such storage in a UniqueWorkspace without a deleter
SpaceIndex(s) == CHOOSE i \in 1..3 : SpaceOrder[i] = s

ForeignPtr(s) == SpaceIndex(s)

\* the allocator hands out pointers that are in use nowhere else: the
\* pointer it returns for space s of the workspace declared as h
AllocPtr(h, s) == Len(SpaceOrder) * h + SpaceIndex(s)

\* the values of m_del: an empty std::function, the lambda AllocateWorkspace
\* builds, and a function of the caller's
NoDeleter == "none"

AllocDeleter == "alloc"

CallerDeleter == "caller"

\* the Deleter values a caller passes to UniqueWorkspace(Workspace, Deleter)
CallerDeleters == {NoDeleter, CallerDeleter}

\* the Workspace values a caller passes to UniqueWorkspace(Workspace, Deleter)
CallerWorkspaces ==
    { [s \in Spaces |-> IF s \in own
                          THEN [data |-> ForeignPtr(s), req |-> ZeroReq, ready |-> Null]
                          ELSE NullMem] : own \in {{}, Spaces} }

Handles == 1..NumHandles

\* the cudaEvent_t values a caller stores in `ready`
Events == {1}

AllPtrs == {AllocPtr(h, s) : h \in Handles, s \in Spaces}

\* what a call of cudaEventSynchronize has given: cudaSuccess, an error, or
\* nothing yet, the calling thread being blocked in it
Success == "cudaSuccess"

Failure == "cudaError"

Pending == "pending"

\* results of cudaEventSynchronize, per space, for a release that runs to
\* its end; the first failure ends the release, so one failing space at a
\* time is enough
SyncOutcomes ==
    { [s \in Spaces |-> IF s = bad THEN Failure ELSE Success] : bad \in Spaces \cup {"none"} }

\* no cudaEventSynchronize call has returned
AllPending == [s \in Spaces |-> Pending]

\* the call for space t has returned res, no later one has
Returned(t, res) == [s \in Spaces |-> IF s = t THEN res ELSE Pending]

\* behaviour of the allocator per space: TRUE means alloc throws; the first
\* failure ends the allocation, so one failing space at a time is enough
AllocOutcomes == { [s \in Spaces |-> s = bad] : bad \in Spaces \cup {"none"} }

(* ------------------------------- state -------------------------------- *)

VARIABLES
    uw,          \* the UniqueWorkspace objects: lifetime, m_impl, m_del
    call,        \* object -> the call whose reset() is running on it
    allocLog,    \* pointer -> the alloc call that returned it
    freeCount,   \* pointer -> number of free calls made on it
    terminated,  \* std::terminate has been called
    last,        \* the most recent step and the calls of its operation
    mreq         \* the arguments and results of the MaxWorkspaceReq calls

vars == <<uw, call, allocLog, freeCount, terminated, last, mreq>>

\* a default-constructed UniqueWorkspace: m_impl{}, m_del{}
EmptyUW == [m_impl |-> NullWorkspace, m_del |-> NoDeleter]

\* the record of an operation: its operands, the calls it has made so far,
\* and, while its thread is blocked in cudaEventSynchronize, the statement
\* of the deleter (at) and the space (on) it is blocked in
NoOp ==
    [op |-> "init", h |-> 0, src |-> 0, events |-> <<>>, threw |-> "none",
     ws |-> NullWorkspace, pre |-> NullWorkspace, hadDel |-> NoDeleter,
     req |-> [s \in Spaces |-> ZeroReq], ptrs |-> {}, called |-> {},
     failed |-> "none", again |-> FALSE, wsDel |-> NoDeleter,
     at |-> 0, on |-> "none"]

(* -------------------------- the release action ------------------------ *)

WaitEvent(s, mem, ok) ==
    [op |-> "wait", space |-> s, arg |-> mem.ready, size |-> 0, alignment |-> 0, ok |-> ok]

FreeEvent(s, mem) ==
    [op |-> "free", space |-> s, arg |-> mem.data, size |-> mem.req.size,
     alignment |-> mem.req.alignment, ok |-> TRUE]

\* the call of a deleter of the caller's
DeleterEvent ==
    [op |-> "deleter", space |-> "all", arg |-> Null, size |-> 0, alignment |-> 0,
     ok |-> TRUE]

\* DelMem without the cudaEventSynchronize call
DelMem_NoWait(s, mem, res) ==
    IF mem.data = Null
      THEN [mem |-> mem, events |-> <<>>, threw |-> FALSE, blocked |-> FALSE]
      ELSE [mem |-> [mem EXCEPT !.data = Null], events |-> <<FreeEvent(s, mem)>>,
            threw |-> FALSE, blocked |-> FALSE]

\* DelMem that waits for the event before it looks at data
DelMem_WaitAlways(s, mem, res) ==
    IF mem.ready # Null /\ res = Pending
      THEN [mem |-> mem, events |-> <<>>, threw |-> FALSE, blocked |-> TRUE]
      ELSE IF mem.ready # Null /\ res = Failure
        THEN [mem |-> mem, events |-> <<WaitEvent(s, mem, FALSE)>>, threw |-> TRUE,
              blocked |-> FALSE]
        ELSE [mem |-> [mem EXCEPT !.data = Null],
              events |-> (IF mem.ready # Null THEN <<WaitEvent(s, mem, TRUE)>> ELSE <<>>)
                         \o (IF mem.data # Null THEN <<FreeEvent(s, mem)>> ELSE <<>>),
              threw |-> FALSE, blocked |-> FALSE]

\* one of the three `if (ws.X.data)` statements of the deleter; res is what
\* cudaEventSynchronize has given: while it is Pending the thread stays in
\* the call, a Failure is thrown, after Success the block is freed
DelMem(s, mem, res) ==
    IF mem.data = Null
      THEN [mem |-> mem, events |-> <<>>, threw |-> FALSE, blocked |-> FALSE]
      ELSE IF mem.ready # Null /\ res = Pending
        THEN [mem |-> mem, events |-> <<>>, threw |-> FALSE, blocked |-> TRUE]
        ELSE IF mem.ready # Null /\ res = Failure
          THEN [mem |-> mem, events |-> <<WaitEvent(s, mem, FALSE)>>, threw |-> TRUE,
                blocked |-> FALSE]
          ELSE [mem |-> [mem EXCEPT !.data = Null],
                events |-> (IF mem.ready # Null THEN <<WaitEvent(s, mem, TRUE)>> ELSE <<>>)
                           \o <<FreeEvent(s, mem)>>,
                threw |-> FALSE, blocked |-> FALSE]

\* the deleter with its three statements in the opposite order
RECURSIVE DelFrom_Reverse(_, _, _)
DelFrom_Reverse(i, ws, sync) ==
    IF i > 3
      THEN [ws |-> ws, events |-> <<>>, threw |-> FALSE, at |-> 0, on |-> "none"]
      ELSE LET s == SpaceOrder[4 - i]
               r == DelMem(s, ws[s], sync[s])
               ws1 == [ws EXCEPT ![s] = r.mem]
           IN IF r.threw
                THEN [ws |-> ws1, events |-> r.events, threw |-> TRUE, at |-> 0,
                      on |-> "none"]
                ELSE IF r.blocked
                  THEN [ws |-> ws1, events |-> r.events, threw |-> FALSE, at |-> i,
                        on |-> s]
                  ELSE LET rest == DelFrom_Reverse(i + 1, ws1, sync)
                       IN [ws |-> rest.ws, events |-> r.events \o rest.events,
                           threw |-> rest.threw, at |-> rest.at, on |-> rest.on]

\* the deleter lambda of AllocateWorkspace, applied to ws by reference, from
\* its i-th statement on; sync gives what cudaEventSynchronize has given
\* for each space. The run ends when the lambda returns, when it throws,
\* or in the cudaEventSynchronize call of statement `at` for space `on`
RECURSIVE DelFrom(_, _, _)
DelFrom(i, ws, sync) ==
    IF i > 3
      THEN [ws |-> ws, events |-> <<>>, threw |-> FALSE, at |-> 0, on |-> "none"]
      ELSE LET s == SpaceOrder[i]
               r == DelMem(s, ws[s], sync[s])
               ws1 == [ws EXCEPT ![s] = r.mem]
           IN IF r.threw
                THEN [ws |-> ws1, events |-> r.events, threw |-> TRUE, at |-> 0,
                      on |-> "none"]
                ELSE IF r.blocked
                  THEN [ws |-> ws1, events |-> r.events, threw |-> FALSE, at |-> i,
                        on |-> s]
                  ELSE LET rest == DelFrom(i + 1, ws1, sync)
                       IN [ws |-> rest.ws, events |-> r.events \o rest.events,
                           threw |-> rest.threw, at |-> rest.at, on |-> rest.on]

del(ws, sync) == DelFrom(1, ws, sync)

\* a deleter of the caller's: it is called with m_impl and returns
CallerDel(ws) ==
    [ws |-> ws, events |-> <<DeleterEvent>>, threw |-> FALSE, at |-> 0, on |-> "none"]

\* m_del(m_impl), entered at the first statement of the deleter or resumed
\* at statement i
CallDeleter(d, i, ws, sync) ==
    IF d = CallerDeleter THEN CallerDel(ws) ELSE DelFrom(i, ws, sync)

(* --------------------------- UniqueWorkspace --------------------------- *)

\* reset that clears the members without calling the deleter
reset_NoDeleterCall(u, i, sync) ==
    IF u.m_del # NoDeleter
      THEN [u |-> EmptyUW, events |-> <<>>, threw |-> FALSE, at |-> 0, on |-> "none"]
      ELSE [u |-> u, events |-> <<>>, threw |-> FALSE, at |-> 0, on |-> "none"]

\* reset that catches what the deleter throws and carries on
reset_Swallow(u, i, sync) ==
    IF u.m_del # NoDeleter
      THEN LET r == CallDeleter(u.m_del, i, u.m_impl, sync)
           IN IF r.at # 0
                THEN [u |-> [u EXCEPT !.m_impl = r.ws], events |-> r.events,
                      threw |-> FALSE, at |-> r.at, on |-> r.on]
                ELSE [u |-> EmptyUW, events |-> r.events, threw |-> FALSE, at |-> 0,
                      on |-> "none"]
      ELSE [u |-> u, events |-> <<>>, threw |-> FALSE, at |-> 0, on |-> "none"]

\* reset that empties m_impl but keeps the deleter
reset_KeepDeleter(u, i, sync) ==
    IF u.m_del # NoDeleter
      THEN LET r == CallDeleter(u.m_del, i, u.m_impl, sync)
           IN IF r.threw \/ r.at # 0
                THEN [u |-> [u EXCEPT !.m_impl = r.ws], events |-> r.events,
                      threw |-> r.threw, at |-> r.at, on |-> r.on]
                ELSE [u |-> [u EXCEPT !.m_impl = NullWorkspace], events |-> r.events,
                      threw |-> FALSE, at |-> 0, on |-> "none"]
      ELSE [u |-> u, events |-> <<>>, threw |-> FALSE, at |-> 0, on |-> "none"]

\* reset that hands the deleter a copy of m_impl and clears neither member
reset_NoClear(u, i, sync) ==
    IF u.m_del # NoDeleter
      THEN LET r == CallDeleter(u.m_del, i, u.m_impl, sync)
           IN [u |-> u, events |-> r.events, threw |-> r.threw, at |-> r.at, on |-> r.on]
      ELSE [u |-> u, events |-> <<>>, threw |-> FALSE, at |-> 0, on |-> "none"]

\* UniqueWorkspace::reset() on the object value u, from the call of the
\* deleter (i = 1) or from the statement i of the deleter its thread was
\* blocked in, up to the next cudaEventSynchronize call that does not
\* return (at # 0), to an exception leaving the deleter, which escapes a
\* noexcept function (threw), or to the end
reset(u, i, sync) ==
    IF u.m_del # NoDeleter
      THEN LET r == CallDeleter(u.m_del, i, u.m_impl, sync)
           IN IF r.threw \/ r.at # 0
                THEN [u |-> [u EXCEPT !.m_impl = r.ws], events |-> r.events,
                      threw |-> r.threw, at |-> r.at, on |-> r.on]
                ELSE [u |-> EmptyUW, events |-> r.events, threw |-> FALSE, at |-> 0,
                      on |-> "none"]
      ELSE [u |-> u, events |-> <<>>, threw |-> FALSE, at |-> 0, on |-> "none"]

\* swap that copies both members of ws and leaves ws as it was
swap_CopyBoth(this, ws) == <<ws, ws>>

\* swap that exchanges m_del but only copies m_impl
swap_KeepImpl(this, ws) ==
    <<[m_impl |-> ws.m_impl, m_del |-> ws.m_del],
      [m_impl |-> ws.m_impl, m_del |-> this.m_del]>>

\* UniqueWorkspace::swap: the pair (this, ws) after the call
swap(this, ws) ==
    <<[m_impl |-> ws.m_impl, m_del |-> ws.m_del],
      [m_impl |-> this.m_impl, m_del |-> this.m_del]>>

\* UniqueWorkspace::get()
get(h) == uw[h].obj.m_impl

(* ------------------------------ allocator ------------------------------ *)

RECURSIVE CountFrees(_, _)
CountFrees(events, p) ==
    IF events = <<>>
      THEN 0
      ELSE (IF Head(events).op = "free" /\ Head(events).arg = p THEN 1 ELSE 0)
           + CountFrees(Tail(events), p)

\* the allocator's book-keeping after the free calls in events
FreeCountAfter(events) ==
    [p \in AllPtrs |-> freeCount[p] + CountFrees(events, p)]

\* the number of free calls the allocator of space s has received
RECURSIVE FreeCallsUpTo(_, _)
FreeCallsUpTo(h, s) ==
    IF h = 0 THEN 0 ELSE freeCount[AllocPtr(h, s)] + FreeCallsUpTo(h - 1, s)

FreeCalls(s) == FreeCallsUpTo(NumHandles, s)

\* the number of alloc calls the allocator of space s has answered
AllocsDone(s) == Cardinality({p \in AllPtrs : allocLog[p].space = s})

\* AllocFrom without the `if (req.X.size)` tests
RECURSIVE AllocFrom_Always(_, _, _, _, _)
AllocFrom_Always(i, ws, req, fails, h) ==
    IF i > 3
      THEN [ws |-> ws, threw |-> FALSE, called |-> {}, ptrs |-> {}, failed |-> "none"]
      ELSE LET s == SpaceOrder[i]
           IN IF fails[s]
                THEN [ws |-> ws, threw |-> TRUE, called |-> {s}, ptrs |-> {}, failed |-> s]
                ELSE LET rest == AllocFrom_Always(i + 1, [ws EXCEPT ![s].data = AllocPtr(h, s)],
                                                  req, fails, h)
                     IN [ws |-> rest.ws, threw |-> rest.threw,
                         called |-> rest.called \cup {s},
                         ptrs |-> rest.ptrs \cup {AllocPtr(h, s)},
                         failed |-> rest.failed]

\* the three `if (req.X.size) ws.X.data = alloc...` statements from the
\* i-th on: ws is the workspace built so far, called the spaces alloc was
\* called for; an alloc that fails throws and skips the rest
RECURSIVE AllocFrom(_, _, _, _, _)
AllocFrom(i, ws, req, fails, h) ==
    IF i > 3
      THEN [ws |-> ws, threw |-> FALSE, called |-> {}, ptrs |-> {}, failed |-> "none"]
      ELSE LET s == SpaceOrder[i]
           IN IF req[s].size # 0
                THEN IF fails[s]
                       THEN [ws |-> ws, threw |-> TRUE, called |-> {s}, ptrs |-> {},
                             failed |-> s]
                       ELSE LET rest == AllocFrom(i + 1, [ws EXCEPT ![s].data = AllocPtr(h, s)],
                                                  req, fails, h)
                            IN [ws |-> rest.ws, threw |-> rest.threw,
                                called |-> rest.called \cup {s},
                                ptrs |-> rest.ptrs \cup {AllocPtr(h, s)},
                                failed |-> rest.failed]
                ELSE AllocFrom(i + 1, ws, req, fails, h)

\* TryAllocate without the three req assignments
TryAllocate_NoReq(req, fails, h) == AllocFrom(1, NullWorkspace, req, fails, h)

\* the try block up to the return: ws = {}, the three req assignments,
\* the three allocs
TryAllocate(req, fails, h) ==
    AllocFrom(1, [s \in Spaces |-> [NullMem EXCEPT !.req = req[s]]], req, fails, h)

\* a catch block that rethrows without calling the deleter
Rollback_None(ws) ==
    [ws |-> ws, events |-> <<>>, threw |-> FALSE, at |-> 0, on |-> "none"]

\* the catch block: the deleter is called on the local ws, whose `ready`
\* members are null, so it calls cudaEventSynchronize for no space
Rollback(ws) == del(ws, AllPending)

\* no alloc call has returned this pointer
NoAlloc == [space |-> "none", size |-> 0, alignment |-> 0]

\* objects are numbered in the order of their declarations
Declarable(h) == uw[h].life = "none" /\ \A g \in Handles : g < h => uw[g].life # "none"

(* --------------------------- MaxWorkspaceReq --------------------------- *)

\* x & y on unsigned integers
RECURSIVE BitAnd(_, _)
BitAnd(x, y) ==
    IF x = 0 \/ y = 0
      THEN 0
      ELSE (x % 2) * (y % 2) + 2 * BitAnd(x \div 2, y \div 2)

\* (n & (n - 1)) == 0 on size_t; for n = 0 the subtraction wraps around and
\* the conjunction with 0 is 0
NoBitBelowTop(n) == IF n = 0 THEN TRUE ELSE BitAnd(n, n - 1) = 0

\* nvcv::detail::AlignUp: value rounded up to a multiple of a power of two;
\* (value + (alignment - 1)) & -alignment is 0 for alignment 0
AlignUp(value, alignment) ==
    IF alignment = 0
      THEN 0
      ELSE ((value + alignment - 1) \div alignment) * alignment

\* the call does not return: an assertion failed
Aborted == [size |-> 0, alignment |-> 0, aborted |-> TRUE]

\* MaxWorkspaceReq that returns the larger size as it is
MaxWorkspaceReq_NoAlignUp(a, b) ==
    IF (a.size # 0 /\ ~(a.alignment > 0)) \/ (b.size # 0 /\ ~(b.alignment > 0))
      THEN Aborted
      ELSE LET alignment == IF b.alignment > a.alignment THEN b.alignment ELSE a.alignment
               size == IF b.size > a.size THEN b.size ELSE a.size
           IN IF ~NoBitBelowTop(alignment)
                THEN Aborted
                ELSE [size |-> size, alignment |-> alignment, aborted |-> FALSE]

\* MaxWorkspaceReq that takes the alignment of its first argument
MaxWorkspaceReq_FirstAlignment(a, b) ==
    IF (a.size # 0 /\ ~(a.alignment > 0)) \/ (b.size # 0 /\ ~(b.alignment > 0))
      THEN Aborted
      ELSE LET alignment == a.alignment
               size == IF b.size > a.size THEN b.size ELSE a.size
           IN IF ~NoBitBelowTop(alignment)
                THEN Aborted
                ELSE [size |-> AlignUp(size, alignment), alignment |-> alignment,
                      aborted |-> FALSE]

\* MaxWorkspaceReq with the size comparison the wrong way round
MaxWorkspaceReq_MinSize(a, b) ==
    IF (a.size # 0 /\ ~(a.alignment > 0)) \/ (b.size # 0 /\ ~(b.alignment > 0))
      THEN Aborted
      ELSE LET alignment == IF b.alignment > a.alignment THEN b.alignment ELSE a.alignment
               size == IF b.size > a.size THEN a.size ELSE b.size
           IN IF ~NoBitBelowTop(alignment)
                THEN Aborted
                ELSE [size |-> AlignUp(size, alignment), alignment |-> alignment,
                      aborted |-> FALSE]

\* MaxWorkspaceReq whose first two assertions do not exempt size 0
MaxWorkspaceReq_StrictAssert(a, b) ==
    IF ~(a.alignment > 0) \/ ~(b.alignment > 0)
      THEN Aborted
      ELSE LET alignment == IF b.alignment > a.alignment THEN b.alignment ELSE a.alignment
               size == IF b.size > a.size THEN b.size ELSE a.size
           IN IF ~NoBitBelowTop(alignment)
                THEN Aborted
                ELSE [size |-> AlignUp(size, alignment), alignment |-> alignment,
                      aborted |-> FALSE]

\* MaxWorkspaceReq(WorkspaceMemRequirements, WorkspaceMemRequirements) in a
\* build with assertions
MaxWorkspaceReq(a, b) ==
    IF (a.size # 0 /\ ~(a.alignment > 0)) \/ (b.size # 0 /\ ~(b.alignment > 0))
      THEN Aborted
      ELSE LET alignment == IF b.alignment > a.alignment THEN b.alignment ELSE a.alignment
               size == IF b.size > a.size THEN b.size ELSE a.size
           IN IF ~NoBitBelowTop(alignment)
                THEN Aborted
                ELSE [size |-> AlignUp(size, alignment), alignment |-> alignment,
                      aborted |-> FALSE]

\* MaxWorkspaceReq(x, c) where x is the result of an earlier call
MaxWorkspaceReqOfResult(x, c) ==
    IF x.aborted THEN Aborted
    ELSE MaxWorkspaceReq([size |-> x.size, alignment |-> x.alignment], c)

MaxWorkspaceReqWithResult(a, x) ==
    IF x.aborted THEN Aborted
    ELSE MaxWorkspaceReq(a, [size |-> x.size, alignment |-> x.alignment])

\* the requirements a caller merges: a grid of small ones, and the two of
\* the documented example
MergeInputs ==
    [size : 0..MaxSize, alignment : 0..MaxAlignment]
       \cup {[size |-> 100, alignment |-> 16], [size |-> 50, alignment |-> 32]}

\* no MaxWorkspaceReq call is under way
NoMerge ==
    [pc |-> "idle", a |-> ZeroReq, b |-> ZeroReq, c |-> ZeroReq,
     ab |-> Aborted, ba |-> Aborted, ab_c |-> Aborted, a_bc |-> Aborted]

(* ------------------------------- actions ------------------------------- *)

Init ==
    /\ uw = [h \in Handles |-> [life |-> "none", obj |-> EmptyUW]]
    /\ call = [h \in Handles |-> NoOp]
    /\ allocLog = [p \in AllPtrs |-> NoAlloc]
    /\ freeCount = [p \in AllPtrs |-> 0]
    /\ terminated = FALSE
    /\ last = NoOp
    /\ mreq = NoMerge

\* a thread is inside a member function of object h: in the reset() that
\* runs on h, or in the move assignment to h whose reset() runs on its
\* operand. No other thread uses h meanwhile: that would be a data race
InCall(h) == call[h].at # 0 \/ \E g \in Handles : call[g].at # 0 /\ call[g].h = h

\* the alloc calls recorded for the pointers handed out in this call
AllocLogAfter(r, req) ==
    [p \in AllPtrs |->
        IF p \in r.ptrs
          THEN LET s == CHOOSE t \in Spaces : r.ws[t].data = p
               IN [space |-> s, size |-> req[s].size, alignment |-> req[s].alignment]
          ELSE allocLog[p]]

\* UniqueWorkspace h = AllocateWorkspace(req, alloc);
AllocateWorkspace(h, req, fails) ==
    /\ ~terminated
    /\ Declarable(h)
    /\ LET r == TryAllocate(req, fails, h)
           ev == IF r.threw THEN Rollback(r.ws).events ELSE <<>>
       IN /\ allocLog' = AllocLogAfter(r, req)
          /\ freeCount' = FreeCountAfter(ev)
          /\ uw' = IF r.threw
                     THEN [uw EXCEPT ![h].life = "failed"]
                     ELSE [uw EXCEPT ![h] = [life |-> "alive",
                                             obj |-> [m_impl |-> r.ws,
                                                      m_del |-> AllocDeleter]]]
          /\ last' = [NoOp EXCEPT !.op = "AllocateWorkspace", !.h = h, !.events = ev,
                                  !.threw = IF r.threw THEN "alloc" ELSE "none",
                                  !.ws = r.ws, !.req = req, !.ptrs = r.ptrs,
                                  !.called = r.called, !.failed = r.failed,
                                  !.wsDel = IF r.threw THEN AllocDeleter ELSE NoDeleter]
    /\ UNCHANGED <<call, terminated, mreq>>

\* UniqueWorkspace h(workspace, d);  (d = {} by default; UniqueWorkspace h;
\* when workspace is all-null and d empty)
ConstructFrom(h, workspace, d) ==
    /\ ~terminated
    /\ Declarable(h)
    /\ uw' = [uw EXCEPT ![h] = [life |-> "alive",
                                obj |-> [m_impl |-> workspace, m_del |-> d]]]
    /\ last' = [NoOp EXCEPT !.op = "ConstructFrom", !.h = h, !.ws = workspace,
                            !.hadDel = d]
    /\ UNCHANGED <<call, allocLog, freeCount, terminated, mreq>>

\* UniqueWorkspace dst(std::move(src));
MoveConstruct(dst, src) ==
    /\ ~terminated
    /\ Declarable(dst)
    /\ uw[src].life = "alive"
    /\ ~InCall(src)
    /\ LET p == swap(EmptyUW, uw[src].obj)
       IN uw' = [uw EXCEPT ![dst] = [life |-> "alive", obj |-> p[1]],
                           ![src].obj = p[2]]
    /\ last' = [NoOp EXCEPT !.op = "MoveConstruct", !.h = dst, !.src = src,
                            !.pre = uw[src].obj.m_impl, !.hadDel = uw[src].obj.m_del]
    /\ UNCHANGED <<call, allocLog, freeCount, terminated, mreq>>

\* the objects after the reset() that ran on object g has come to its end
\* with the object value u: a destructor ends the lifetime of the object
AfterReset(objs, c, g, r) ==
    IF c.op = "destroy" /\ ~r.threw
      THEN [objs EXCEPT ![g] = [life |-> "destroyed", obj |-> EmptyUW]]
      ELSE [objs EXCEPT ![g].obj = r.u]

\* the part of operation c in which reset() runs on object g, from
\* statement i of the deleter until the thread blocks in
\* cudaEventSynchronize, std::terminate is called, or the operation returns;
\* objs are the objects before this part
ResetPart(objs, c, g, i, sync) ==
    LET r == reset(objs[g].obj, i, sync)
        done == [c EXCEPT !.events = c.events \o r.events,
                          !.threw = IF r.threw THEN "sync" ELSE "none"]
    IN /\ freeCount' = FreeCountAfter(r.events)
       /\ terminated' = r.threw
       /\ IF r.at # 0
            THEN /\ uw' = [objs EXCEPT ![g].obj = r.u]
                 /\ call' = [call EXCEPT ![g] = [done EXCEPT !.at = r.at, !.on = r.on]]
                 /\ last' = [NoOp EXCEPT !.op = "blocked", !.h = c.h, !.src = g]
            ELSE /\ uw' = AfterReset(objs, c, g, r)
                 /\ call' = [call EXCEPT ![g] = NoOp]
                 /\ last' = done
       /\ UNCHANGED <<allocLog, mreq>>

\* dst = std::move(src);  (dst and src may be the same object), up to its
\* return or to the first cudaEventSynchronize call
MoveAssign(dst, src) ==
    /\ ~terminated
    /\ uw[dst].life = "alive"
    /\ uw[src].life = "alive"
    /\ ~InCall(dst)
    /\ ~InCall(src)
    /\ LET p == IF dst = src
                  THEN <<uw[dst].obj, uw[dst].obj>>
                  ELSE swap(uw[dst].obj, uw[src].obj)
           swapped == [uw EXCEPT ![dst].obj = p[1], ![src].obj = p[2]]
       IN ResetPart(swapped,
                    [NoOp EXCEPT !.op = "MoveAssign", !.h = dst, !.src = src,
                                 !.ws = p[2].m_impl,
                                 !.pre = uw[src].obj.m_impl,
                                 !.hadDel = uw[src].obj.m_del,
                                 !.wsDel = p[2].m_del],
                    src, 1, AllPending)

\* h.reset();  up to its return or to the first cudaEventSynchronize call
Reset(h) ==
    /\ ~terminated
    /\ uw[h].life = "alive"
    /\ ~InCall(h)
    /\ ResetPart(uw,
                 [NoOp EXCEPT !.op = "reset", !.h = h, !.src = h,
                              !.ws = uw[h].obj.m_impl,
                              !.pre = uw[h].obj.m_impl,
                              !.hadDel = uw[h].obj.m_del,
                              !.wsDel = uw[h].obj.m_del,
                              !.again = (last.op = "reset" /\ last.h = h)],
                 h, 1, AllPending)

\* h goes out of scope: ~UniqueWorkspace(), up to its return or to the
\* first cudaEventSynchronize call
Destroy(h) ==
    /\ ~terminated
    /\ uw[h].life = "alive"
    /\ ~InCall(h)
    /\ ResetPart(uw,
                 [NoOp EXCEPT !.op = "destroy", !.h = h, !.src = h,
                              !.ws = uw[h].obj.m_impl,
                              !.pre = uw[h].obj.m_impl,
                              !.hadDel = uw[h].obj.m_del,
                              !.wsDel = uw[h].obj.m_del,
                              !.again = (last.op = "reset" /\ last.h = h)],
                 h, 1, AllPending)

\* the cudaEventSynchronize call the reset() on object g is blocked in
\* returns res, and the operation goes on up to its return, to
\* std::terminate, or to the next cudaEventSynchronize call
SyncReturn(g, res) ==
    /\ ~terminated
    /\ call[g].at # 0
    /\ ResetPart(uw, [call[g] EXCEPT !.at = 0, !.on = "none"], g, call[g].at,
                 Returned(call[g].on, res))

\* the `ready` members that hold an event
ReadySet == {<<h, s>> \in Handles \X Spaces : uw[h].obj.m_impl[s].ready # Null}

\* an operator that uses the workspace records its completion event in the
\* `ready` member of one of the blocks of h
AttachReady(h, s, e) ==
    /\ ~terminated
    /\ uw[h].life = "alive"
    /\ ~InCall(h)
    /\ uw[h].obj.m_impl[s].ready = Null
    /\ Cardinality(ReadySet) < MaxReady
    /\ uw' = [uw EXCEPT ![h].obj.m_impl[s].ready = e]
    /\ last' = [NoOp EXCEPT !.op = "AttachReady", !.h = h]
    /\ UNCHANGED <<call, allocLog, freeCount, terminated, mreq>>

NextOwned ==
    \/ \E h \in Handles, req \in WorkspaceRequirements, fails \in AllocOutcomes :
          AllocateWorkspace(h, req, fails)
    \/ \E dst \in Handles, src \in Handles : MoveConstruct(dst, src)
    \/ \E dst \in Handles, src \in Handles : MoveAssign(dst, src)
    \/ \E h \in Handles : Reset(h)
    \/ \E h \in Handles : Destroy(h)
    \/ \E g \in Handles, res \in {Success, Failure} : SyncReturn(g, res)
    \/ \E h \in Handles, s \in Spaces, e \in Events : AttachReady(h, s, e)

Next ==
    \/ NextOwned
    \/ \E h \in Handles, workspace \in CallerWorkspaces, d \in CallerDeleters :
          ConstructFrom(h, workspace, d)

\* every way of using the header
Spec == Init /\ [][Next]_vars

\* the uses in which every UniqueWorkspace comes from AllocateWorkspace
SpecOwned == Init /\ [][NextOwned]_vars

\* a caller is about to merge the requirements a, b and c
InitMerge ==
    /\ uw = [h \in Handles |-> [life |-> "none", obj |-> EmptyUW]]
    /\ allocLog = [p \in AllPtrs |-> NoAlloc]
    /\ call = [h \in Handles |-> NoOp]
    /\ freeCount = [p \in AllPtrs |-> 0]
    /\ terminated = FALSE
    /\ last = NoOp
    /\ mreq \in {[NoMerge EXCEPT !.pc = "call", !.a = a, !.b = b, !.c = c] :
                    a \in MergeInputs, b \in MergeInputs, c \in MergeInputs}

\* the calls MaxWorkspaceReq(a, b), MaxWorkspaceReq(b, a),
\* MaxWorkspaceReq(MaxWorkspaceReq(a, b), c) and
\* MaxWorkspaceReq(a, MaxWorkspaceReq(b, c))
MergeCalls ==
    /\ mreq.pc = "call"
    /\ mreq' = [mreq EXCEPT !.pc = "done",
                            !.ab = MaxWorkspaceReq(mreq.a, mreq.b),
                            !.ba = MaxWorkspaceReq(mreq.b, mreq.a),
                            !.ab_c = MaxWorkspaceReqOfResult(MaxWorkspaceReq(mreq.a, mreq.b), mreq.c),
                            !.a_bc = MaxWorkspaceReqWithResult(mreq.a, MaxWorkspaceReq(mreq.b, mreq.c))]
    /\ UNCHANGED <<uw, call, allocLog, freeCount, terminated, last>>

NextMerge == MergeCalls

\* the merging of requirements
SpecMerge == InitMerge /\ [][NextMerge]_vars

(* ------------------------------ properties ----------------------------- *)

\* the non-null data pointers of a Workspace
Ptrs(ws) == {ws[s].data : s \in Spaces} \ {Null}

Allocated(p) == allocLog[p] # NoAlloc

Alive(h) == uw[h].life = "alive"

Moved == last.op \in {"MoveConstruct", "MoveAssign"}

Released == last.op \in {"reset", "destroy"}

\* every release action has run to its end
Quiescent == ~terminated /\ \A h \in Handles : uw[h].obj.m_del = NoDeleter

FailedWaits == {i \in DOMAIN last.events : last.events[i].op = "wait" /\ ~last.events[i].ok}

\* C1: a block the allocator handed out is freed at most once, whatever
\* moves, resets and destructions happen, and once no UniqueWorkspace is
\* alive any more every such block has been freed exactly once.
C1_FreedExactlyOnce ==
    /\ \A p \in AllPtrs : freeCount[p] <= 1
    /\ \A p \in AllPtrs : ~Allocated(p) => freeCount[p] = 0
    /\ (~terminated /\ \A h \in Handles : ~Alive(h))
          => \A p \in AllPtrs : Allocated(p) => freeCount[p] = 1

C1_Witness ==
    /\ ~terminated
    /\ \A h \in Handles : uw[h].life = "destroyed"
    /\ last.op = "destroy" /\ Len(last.events) = 3
    /\ \E p \in AllPtrs : Allocated(p) /\ freeCount[p] = 1

\* C2: when an alloc call of AllocateWorkspace fails, every block allocated
\* before it is freed exactly once, no other free call is made, the failure
\* reaches the caller and no UniqueWorkspace holds any of the blocks.
C2_Rollback ==
    (last.op = "AllocateWorkspace" /\ last.failed # "none")
       => /\ last.threw = "alloc"
          /\ ~terminated
          /\ \A p \in last.ptrs : freeCount[p] = 1 /\ CountFrees(last.events, p) = 1
          /\ \A i \in DOMAIN last.events :
                /\ last.events[i].op = "free"
                /\ last.events[i].arg \in last.ptrs
                /\ last.ws[last.events[i].space].data = last.events[i].arg
          /\ ~Alive(last.h)
          /\ \A g \in Handles : Ptrs(get(g)) \cap last.ptrs = {}

C2_Witness ==
    /\ last.op = "AllocateWorkspace"
    /\ last.failed = "cudaMem"
    /\ last.ptrs = {AllocPtr(last.h, "hostMem")}
    /\ freeCount[AllocPtr(last.h, "hostMem")] = 1
    /\ freeCount[AllocPtr(last.h, "cudaMem")] = 0

\* in the calls operation c has made, a free of a block that has a
\* readiness event comes after a wait on that event that returned success
WaitBeforeFree(c) ==
    \A i \in DOMAIN c.events :
        (c.events[i].op = "free" /\ c.ws[c.events[i].space].ready # Null)
           => \E j \in 1..(i - 1) :
                 /\ c.events[j].op = "wait"
                 /\ c.events[j].space = c.events[i].space
                 /\ c.events[j].arg = c.ws[c.events[i].space].ready
                 /\ c.events[j].ok

\* C3: in a run of the release action, finished or blocked in a wait, a
\* block that has a readiness event and non-null data is freed only after
\* the wait on that event has returned success.
C3_WaitBeforeFree ==
    /\ WaitBeforeFree(last)
    /\ \A g \in Handles : WaitBeforeFree(call[g])

C3_Witness ==
    /\ Released
    /\ \E i \in DOMAIN last.events :
          /\ last.events[i].op = "free"
          /\ last.events[i].space = "pinnedMem"
          /\ last.ws["pinnedMem"].ready # Null

\* C4: when a readiness wait fails during a release, the block it guards
\* is not freed, nothing is called after the failed wait, and the release
\* does not return: the process is terminated.
C4_SyncFailureIsFatal ==
    \A i \in FailedWaits :
        /\ terminated
        /\ last.threw = "sync"
        /\ i = Len(last.events)
        /\ CountFrees(last.events, last.ws[last.events[i].space].data) = 0
        /\ last.ws[last.events[i].space].data \in AllPtrs
              => freeCount[last.ws[last.events[i].space].data] = 0

C4_Witness ==
    /\ last.op = "reset"
    /\ terminated
    /\ \E i \in FailedWaits : last.events[i].space = "cudaMem"
    /\ freeCount[last.ws["cudaMem"].data] = 0
    /\ freeCount[last.ws["hostMem"].data] = 1

\* C5: after b = move(a), with a holding a release action and b another
\* object, a release of a calls neither wait nor free nor a deleter; when
\* the release action is the one of AllocateWorkspace none of a's former
\* blocks was freed before and a release of b that returns frees each of
\* them exactly once and nothing else; when it is a deleter of the caller's
\* a release of b calls it once.
C5_MoveTransfersOwnership ==
    (Moved /\ last.src # last.h /\ last.hadDel # NoDeleter /\ ~terminated)
       => /\ \A sync \in SyncOutcomes : reset(uw[last.src].obj, 1, sync).events = <<>>
          /\ last.hadDel = AllocDeleter
                => /\ \A p \in Ptrs(last.pre) : freeCount[p] = 0
                   /\ \A sync \in SyncOutcomes :
                         LET r == reset(uw[last.h].obj, 1, sync)
                         IN ~r.threw =>
                               /\ \A p \in Ptrs(last.pre) : CountFrees(r.events, p) = 1
                               /\ \A i \in DOMAIN r.events :
                                     r.events[i].op = "free"
                                        => r.events[i].arg \in Ptrs(last.pre)
          /\ last.hadDel = CallerDeleter
                => \A sync \in SyncOutcomes :
                      reset(uw[last.h].obj, 1, sync).events = <<DeleterEvent>>

C5_Witness ==
    /\ last.op = "MoveAssign"
    /\ last.src # last.h
    /\ last.hadDel = AllocDeleter
    /\ ~terminated
    /\ Cardinality(Ptrs(last.pre)) = 3
    /\ Ptrs(get(last.h)) = Ptrs(last.pre)

\* C6: after a move construction or a move assignment the source holds
\* all-null blocks and no release action.
C6_SourceEmptyAfterMove ==
    (Moved /\ ~terminated)
       => /\ \A s \in Spaces : get(last.src)[s].data = Null
          /\ uw[last.src].obj.m_del = NoDeleter

\* C7: no block is freed twice; a reset() that returns has freed every
\* block the object owned once; and a reset() or destruction that follows a
\* reset() of the same object calls neither wait nor free and leaves the
\* object as it was.
C7_ResetIdempotent ==
    /\ \A p \in AllPtrs : freeCount[p] <= 1
    /\ (last.op = "reset" /\ last.hadDel = AllocDeleter /\ ~terminated)
          => \A p \in Ptrs(last.pre) : freeCount[p] = 1
    /\ (Released /\ last.again)
          => /\ last.events = <<>>
             /\ ~terminated
             /\ last.op = "reset"
                   => uw[last.h].obj = [m_impl |-> last.pre, m_del |-> last.hadDel]

C7_Witness ==
    /\ last.op = "reset"
    /\ last.again
    /\ \A g \in Handles \ {last.h} : uw[g].life = "none"
    /\ \E p \in AllPtrs : freeCount[p] = 1

\* C8 as stated: after reset() of any UniqueWorkspace, get() has null data
\* in all three blocks and the object holds no release action.
C8_ResetLeavesEmpty ==
    (last.op = "reset" /\ ~terminated)
       => /\ \A s \in Spaces : get(last.h)[s].data = Null
          /\ uw[last.h].obj.m_del = NoDeleter

\* C8 amended: after a reset() that returns, the object holds no release
\* action; if it held one before, get() has null data in all three blocks,
\* and if it held none, get() is what it was before the call.
C8_ResetReleasesOwned ==
    (last.op = "reset" /\ ~terminated)
       => /\ uw[last.h].obj.m_del = NoDeleter
          /\ last.hadDel # NoDeleter => \A s \in Spaces : get(last.h)[s].data = Null
          /\ last.hadDel = NoDeleter => get(last.h) = last.pre

C8_Witness ==
    /\ last.op = "reset"
    /\ ~terminated
    /\ last.hadDel = AllocDeleter
    /\ Cardinality(Ptrs(last.pre)) = 2
    /\ Ptrs(get(last.h)) = {}

\* C9: no two UniqueWorkspace objects hold the same non-null block.
C9_NoSharedBlock ==
    \A g \in Handles, h \in Handles :
        g # h => Ptrs(get(g)) \cap Ptrs(get(h)) = {}

C9_Witness ==
    /\ Moved
    /\ last.src # last.h
    /\ Alive(last.src)
    /\ Ptrs(get(last.h)) # {}
    /\ Ptrs(get(last.h)) = Ptrs(last.pre)

\* C10 as stated: AllocateWorkspace calls alloc for a space exactly when
\* the size requested for it is nonzero, and after the releases the free
\* calls of a space are as many as its successful alloc calls.
C10_AllocIffNonzero ==
    /\ last.op = "AllocateWorkspace"
          => \A s \in Spaces : (s \in last.called) <=> (last.req[s].size # 0)
    /\ Quiescent => \A s \in Spaces : FreeCalls(s) = AllocsDone(s)

\* the spaces AllocateWorkspace gets to before an alloc call fails
Reached(s) == last.failed = "none" \/ SpaceIndex(s) <= SpaceIndex(last.failed)

\* C10 amended: AllocateWorkspace calls alloc for a space only when the
\* size requested for it is nonzero, and for every such space unless the
\* alloc call of an earlier space failed; a zero-size space keeps null
\* data; and after the releases the free calls of a space are as many as
\* its successful alloc calls.
C10_ZeroSizeNeverAllocates ==
    /\ last.op = "AllocateWorkspace"
          => \A s \in Spaces :
                /\ (s \in last.called) <=> (last.req[s].size # 0 /\ Reached(s))
                /\ last.req[s].size = 0 => last.ws[s].data = Null
                /\ (last.req[s].size = 0 /\ Alive(last.h)) => get(last.h)[s].data = Null
    /\ Quiescent => \A s \in Spaces : FreeCalls(s) = AllocsDone(s)

C10_Witness ==
    /\ Quiescent
    /\ Released
    /\ Len(last.events) = 1
    /\ last.events[1].space = "pinnedMem"
    /\ last.pre["hostMem"].req = NoReq
    /\ AllocsDone("pinnedMem") = 1 /\ FreeCalls("pinnedMem") = 1
    /\ AllocsDone("hostMem") = 0 /\ FreeCalls("hostMem") = 0
    /\ AllocsDone("cudaMem") = 0 /\ FreeCalls("cudaMem") = 0

\* C11: AllocateWorkspace records the requirement of every space in the
\* Workspace, whether or not it allocates for it, and every free call, in a
\* release or in a rollback, is made for the space and with the size and
\* alignment of the alloc call that returned the pointer.
C11_FreeMatchesAlloc ==
    /\ last.op = "AllocateWorkspace"
          => \A s \in Spaces :
                /\ last.ws[s].req = last.req[s]
                /\ Alive(last.h) => get(last.h)[s].req = last.req[s]
    /\ \A i \in DOMAIN last.events :
          last.events[i].op = "free"
             => /\ last.events[i].arg \in AllPtrs
                /\ allocLog[last.events[i].arg] =
                      [space |-> last.events[i].space, size |-> last.events[i].size,
                       alignment |-> last.events[i].alignment]

C11_Witness ==
    /\ last.op = "destroy"
    /\ Len(last.events) = 2
    /\ last.events[1] = [op |-> "free", space |-> "hostMem", arg |-> AllocPtr(last.h, "hostMem"),
                         size |-> 32, alignment |-> 8, ok |-> TRUE]
    /\ last.events[2].space = "cudaMem" /\ last.events[2].size = 96
    /\ last.pre["pinnedMem"].req = NoReq

\* the calls of a run of the deleter come in the order of the spaces
InSpaceOrder(events) ==
    \A i \in DOMAIN events, j \in DOMAIN events :
        i < j => SpaceIndex(events[i].space) <= SpaceIndex(events[j].space)

\* C12: the calls of every run of the release action come in the order
\* host, pinned, device, and the rollback of a failed allocation makes the
\* calls a release of the same Workspace makes.
C12_FixedOrder ==
    /\ InSpaceOrder(last.events)
    /\ (last.op = "AllocateWorkspace" /\ last.failed # "none")
          => \A sync \in SyncOutcomes :
                last.events = reset([m_impl |-> last.ws, m_del |-> AllocDeleter], 1, sync).events

C12_Witness ==
    /\ Released
    /\ Len(last.events) = 5
    /\ last.events[1].op = "free" /\ last.events[1].space = "hostMem"
    /\ last.events[2].op = "wait" /\ last.events[2].space = "pinnedMem"
    /\ last.events[3].op = "free" /\ last.events[3].space = "pinnedMem"
    /\ last.events[4].op = "wait" /\ last.events[4].space = "cudaMem"
    /\ last.events[5].op = "free" /\ last.events[5].space = "cudaMem"

\* the calls of one kind a run of the deleter made for space s
CallsFor(op, s) == {i \in DOMAIN last.events : last.events[i].op = op /\ last.events[i].space = s}

\* a run of the deleter of AllocateWorkspace that returned
DelReturned == last.wsDel = AllocDeleter /\ last.threw # "sync"

\* C18 as stated: a run of the release action waits on the readiness event
\* of every block that has one, whether or not its data is null, and frees
\* the data of every block whose data is non-null.
C18_WaitsWheneverReady ==
    DelReturned
       => \A s \in Spaces :
             /\ last.ws[s].ready # Null => CallsFor("wait", s) # {}
             /\ last.ws[s].data # Null => CallsFor("free", s) # {}

\* C18 amended: a run of the release action waits on the readiness event of
\* a block exactly when the block has one and its data is non-null, frees
\* the data exactly when it is non-null, after the wait, and a block with
\* null data gets no call at all.
C18_WaitsOnlyForData ==
    DelReturned
       => \A s \in Spaces :
             /\ CallsFor("wait", s) # {} <=> (last.ws[s].ready # Null /\ last.ws[s].data # Null)
             /\ CallsFor("free", s) # {} <=> last.ws[s].data # Null
             /\ \A i \in CallsFor("wait", s), j \in CallsFor("free", s) : i < j
             /\ Cardinality(CallsFor("wait", s)) <= 1
             /\ Cardinality(CallsFor("free", s)) <= 1

C18_Witness ==
    /\ Released
    /\ DelReturned
    /\ last.ws["hostMem"].ready # Null /\ last.ws["hostMem"].data = Null
    /\ last.ws["pinnedMem"].ready # Null /\ last.ws["pinnedMem"].data # Null
    /\ Len(last.events) = 2
    /\ last.events[1].op = "wait" /\ last.events[2].op = "free"

\* C19: a move assignment of src to another object dst that holds a
\* release action, when it returns, has released dst's former blocks once
\* (each freed exactly once and nothing else freed by the release action of
\* AllocateWorkspace, one call of a deleter of the caller's), leaves none of
\* them in src or dst, and leaves dst with src's former Workspace and
\* release action.
C19_MoveAssignReleasesOld ==
    (last.op = "MoveAssign" /\ last.src # last.h /\ last.wsDel # NoDeleter /\ ~terminated)
       => /\ last.wsDel = AllocDeleter
                => /\ \A p \in Ptrs(last.ws) :
                         freeCount[p] = 1 /\ CountFrees(last.events, p) = 1
                   /\ \A i \in DOMAIN last.events :
                         last.events[i].op = "free" => last.events[i].arg \in Ptrs(last.ws)
          /\ last.wsDel = CallerDeleter => last.events = <<DeleterEvent>>
          /\ Ptrs(get(last.src)) = {}
          /\ uw[last.src].obj.m_del = NoDeleter
          /\ uw[last.h].obj = [m_impl |-> last.pre, m_del |-> last.hadDel]

C19_Witness ==
    /\ last.op = "MoveAssign"
    /\ last.src # last.h
    /\ last.wsDel = AllocDeleter /\ last.hadDel = AllocDeleter
    /\ ~terminated
    /\ Cardinality(Ptrs(last.ws)) = 2
    /\ Cardinality(Ptrs(last.pre)) = 1
    /\ Ptrs(get(last.h)) = Ptrs(last.pre)

\* C20: a move assignment of an object that holds a release action to
\* itself, when it returns, has run the release action once (each block
\* freed once by the one of AllocateWorkspace, one call of a deleter of the
\* caller's), leaves the object with all-null blocks and no release action,
\* and a later release of it makes no call.
C20_SelfMoveAssign ==
    /\ \A p \in AllPtrs : freeCount[p] <= 1
    /\ (last.op = "MoveAssign" /\ last.src = last.h /\ last.hadDel # NoDeleter /\ ~terminated)
          => /\ last.hadDel = AllocDeleter
                   => \A p \in Ptrs(last.pre) :
                         freeCount[p] = 1 /\ CountFrees(last.events, p) = 1
             /\ last.hadDel = CallerDeleter => last.events = <<DeleterEvent>>
             /\ \A s \in Spaces : get(last.h)[s].data = Null
             /\ uw[last.h].obj.m_del = NoDeleter
             /\ \A sync \in SyncOutcomes : reset(uw[last.h].obj, 1, sync).events = <<>>

C20_Witness ==
    /\ last.op = "MoveAssign"
    /\ last.src = last.h
    /\ last.hadDel = AllocDeleter
    /\ ~terminated
    /\ Cardinality(Ptrs(last.pre)) = 3
    /\ Len(last.events) = 3

\* an alignment that is a power of two
PowerOfTwo(n) == \E k \in 0..n : 2^k = n

\* a requirement with a power-of-two alignment
ValidReq(x) == PowerOfTwo(x.alignment)

Larger(m, n) == IF n > m THEN n ELSE m

Req(size, alignment) == [size |-> size, alignment |-> alignment]

Result(size, alignment) == [size |-> size, alignment |-> alignment, aborted |-> FALSE]

\* C13: for requirements a and b with power-of-two alignments,
\* MaxWorkspaceReq(a, b) returns the larger alignment and the smallest
\* multiple of it that is at least the larger size.
C13_CoversBoth ==
    (mreq.pc = "done" /\ ValidReq(mreq.a) /\ ValidReq(mreq.b))
       => /\ ~mreq.ab.aborted
          /\ mreq.ab.alignment = Larger(mreq.a.alignment, mreq.b.alignment)
          /\ mreq.ab.size % mreq.ab.alignment = 0
          /\ mreq.ab.size >= Larger(mreq.a.size, mreq.b.size)
          /\ mreq.ab.size - mreq.ab.alignment < Larger(mreq.a.size, mreq.b.size)

C13_Witness ==
    /\ mreq.pc = "done"
    /\ mreq.a = Req(100, 16)
    /\ mreq.b = Req(50, 32)
    /\ mreq.ab = Result(128, 32)

\* C14: for requirements with power-of-two alignments, MaxWorkspaceReq is
\* commutative and associative.
C14_CommutativeAssociative ==
    (mreq.pc = "done" /\ ValidReq(mreq.a) /\ ValidReq(mreq.b) /\ ValidReq(mreq.c))
       => /\ mreq.ab = mreq.ba
          /\ mreq.ab_c = mreq.a_bc
          /\ ~mreq.ab_c.aborted

C14_Witness ==
    /\ mreq.pc = "done"
    /\ mreq.a = Req(5, 1)
    /\ mreq.b = Req(3, 4)
    /\ mreq.c = Req(2, 2)
    /\ mreq.ab = Result(8, 4)
    /\ mreq.ab_c = Result(8, 4)
    /\ mreq.a_bc = Result(8, 4)

\* C15: for a requirement a with a power-of-two alignment and a size that
\* is a multiple of it, merging a with {size 0, alignment 1} on either side
\* returns a.
C15_NeutralElement ==
    (mreq.pc = "done" /\ ValidReq(mreq.a) /\ mreq.a.size % mreq.a.alignment = 0
       /\ mreq.b = NoReq)
       => /\ mreq.ab = Result(mreq.a.size, mreq.a.alignment)
          /\ mreq.ba = Result(mreq.a.size, mreq.a.alignment)

C15_Witness ==
    /\ mreq.pc = "done"
    /\ mreq.a = Req(4, 2)
    /\ mreq.b = NoReq
    /\ mreq.ab = Result(4, 2)

\* a requirement with a nonzero size whose alignment is no power of two
BadReq(x) == x.size # 0 /\ ~PowerOfTwo(x.alignment)

\* C16: MaxWorkspaceReq(a, b) fails an assertion whenever a or b has a
\* nonzero size and an alignment that is not a power of two.
C16_RejectsBadAlignment ==
    (mreq.pc = "done" /\ (BadReq(mreq.a) \/ BadReq(mreq.b))) => mreq.ab.aborted

\* C17 as stated: MaxWorkspaceReq fails no assertion when one argument has
\* size 0 and any alignment and the other a power-of-two alignment.
C17_ZeroSizeAnyAlignment ==
    (mreq.pc = "done" /\ mreq.a.size = 0 /\ PowerOfTwo(mreq.b.alignment))
       => ~mreq.ab.aborted /\ ~mreq.ba.aborted

\* C17 amended: MaxWorkspaceReq fails no assertion when one argument has
\* size 0 and an alignment that is zero, a power of two or not larger than
\* the other's, and the other a power-of-two alignment.
C17_ZeroSizeSmallAlignment ==
    (mreq.pc = "done" /\ mreq.a.size = 0 /\ PowerOfTwo(mreq.b.alignment)
       /\ (mreq.a.alignment = 0 \/ PowerOfTwo(mreq.a.alignment)
             \/ mreq.a.alignment <= mreq.b.alignment))
       => ~mreq.ab.aborted /\ ~mreq.ba.aborted

C17_Witness ==
    /\ mreq.pc = "done"
    /\ mreq.a = Req(0, 3)
    /\ mreq.b = Req(5, 4)
    /\ mreq.ab = Result(8, 4)
    /\ mreq.ba = Result(8, 4)

====
